---- MODULE Spec2Model ----
(***************************************************************************)
(* A model of addblock.py: the Block record with its two content hashes    *)
(* and the Blockchain engine (genesis, add_new_transaction, add_block,     *)
(* is_valid_proof, proof_of_work, mine).                                   *)
(*                                                                         *)
(* Text is a sequence of characters; a character is a natural number:      *)
(* 0..9 are the digits '0'..'9', 10 is 'a', 11 is 'b'.  Python lists are   *)
(* objects: `lists` is the heap of list objects and a block's              *)
(* `transactions` field, like `unconfirmed_transactions`, holds a          *)
(* reference (an index of `lists`).                                        *)
(*                                                                         *)
(* hashlib.sha256(...).hexdigest() is modelled by a small deterministic    *)
(* digest of HashLen characters over the digits 0..HashBase-1, computed    *)
(* from the characters of the hashed text.                                 *)
(***************************************************************************)
EXTENDS Integers, Sequences, FiniteSets, TLC

\* ------------------------------------------------------------------ bounds
MaxChain == 3
MaxPending == 2
MaxNonce == 40
MaxSubmitted == 3
HashLen == 5
HashBase == 2

\* ------------------------------------------------------- program constants
difficulty == 4

\* The payloads callers submit: the texts "a" and "b".
Payloads == {<<10>>, <<11>>}
\* The values time.time() returns: at construction, and in mine().
GenesisTimestamps == {7}
Timestamps == {12}
\* The transaction lists and timestamps external block builders use.
ExternalTransactions == {<<<<11>>, <<10>>>>}
ExternalTimestamps == {12}

\* The threads that run mine() when calls are interleaved.
Threads == {"t1", "t2"}

\* chain, lists, unconfirmed_transactions: the engine.  call: the caller's
\* record of its last call when operations run one at a time.  submitted:
\* every payload handed to add_new_transaction, in call order.  workers:
\* each thread's position in mine() and its local variables.  search: a
\* call of proof_of_work followed one loop iteration at a time.
VARIABLES chain, lists, unconfirmed_transactions, call, submitted, workers,
          search

vars == <<chain, lists, unconfirmed_transactions, call, submitted, workers,
          search>>

\* ------------------------------------------------------------ text helpers
\* str(n) for a non-negative integer: its decimal digits.
RECURSIVE IntToStr(_)
IntToStr(n) == IF n < 10 THEN <<n>> ELSE IntToStr(n \div 10) \o <<n % 10>>

\* "".join(parts)
RECURSIVE Join(_)
Join(parts) == IF parts = <<>> THEN <<>> ELSE Head(parts) \o Join(Tail(parts))

\* s.startswith(prefix)
startswith(s, prefix) ==
    Len(s) >= Len(prefix) /\ SubSeq(s, 1, Len(prefix)) = prefix

\* '0' * n
Zeros(n) == [k \in 1..n |-> 0]

\* ------------------------------------------------------------------ digest
\* The digest value after the characters s[i..] are absorbed into h.
RECURSIVE Absorb(_, _, _)
Absorb(h, s, i) ==
    IF i > Len(s) THEN h ELSE Absorb((h * 37 + s[i] + 1) % 101, s, i + 1)

\* The fixed-width digit string of a digest value, most significant first.
HexDigest(v) == [k \in 1..HashLen |-> (v \div (HashBase ^ (HashLen - k))) % HashBase]

sha256(s) == HexDigest(Absorb(2, s, 1) % (HashBase ^ HashLen))

\* ------------------------------------------------------------------- Block
\* block.compute_transactions_hash(), reading the list object in heap
compute_transactions_hash(block, heap) == sha256(Join(heap[block.transactions]))

\* block.compute_hash(): reads the stored transactions_hash field
compute_hash(block) ==
    sha256(IntToStr(block.index) \o IntToStr(block.timestamp)
           \o block.previous_hash \o IntToStr(block.nonce)
           \o block.transactions_hash)

\* Block(index, transactions, timestamp, previous_hash, nonce)
Block(index, transactions, timestamp, previous_hash, nonce, heap) ==
    LET b0 == [index |-> index, transactions |-> transactions,
               timestamp |-> timestamp, previous_hash |-> previous_hash,
               nonce |-> nonce, transactions_hash |-> <<>>, hash |-> <<>>]
        b1 == [b0 EXCEPT !.transactions_hash = compute_transactions_hash(b0, heap)]
    IN  [b1 EXCEPT !.hash = compute_hash(b1)]

\* What a reader of the block sees: its fields, the list dereferenced.
View(block, heap) == [block EXCEPT !.transactions = heap[@]]

NoBlock == [index |-> 0 - 1, transactions |-> <<>>, timestamp |-> 0,
            previous_hash |-> <<>>, nonce |-> 0, transactions_hash |-> <<>>,
            hash |-> <<>>]

\* -------------------------------------------------------------- Blockchain
GenesisPrev == <<0>>

\* is_valid_proof without the difficulty test
is_valid_proof_NoDifficulty(block) == block.hash = compute_hash(block)

\* is_valid_proof without the recomputation test
is_valid_proof_NoRecompute(block) == startswith(block.hash, Zeros(difficulty))

is_valid_proof(block) ==
    startswith(block.hash, Zeros(difficulty)) /\ block.hash = compute_hash(block)

\* add_block without the linkage check
add_block_NoLinkage(ch, block) ==
    IF ~is_valid_proof(block)
    THEN [ok |-> FALSE, chain |-> ch]
    ELSE [ok |-> TRUE, chain |-> Append(ch, block)]

\* add_block whose linkage check accepts the hash of any block of the chain
add_block_LinkAnyBlock(ch, block) ==
    IF ch # <<>> /\ \A i \in 1..Len(ch) : block.previous_hash # ch[i].hash
    THEN [ok |-> FALSE, chain |-> ch]
    ELSE IF ~is_valid_proof(block)
         THEN [ok |-> FALSE, chain |-> ch]
         ELSE [ok |-> TRUE, chain |-> Append(ch, block)]

\* add_block that inserts the block at the front of the chain
add_block_InsertFront(ch, block) ==
    IF ch # <<>> /\ block.previous_hash # ch[Len(ch)].hash
    THEN [ok |-> FALSE, chain |-> ch]
    ELSE IF ~is_valid_proof(block)
         THEN [ok |-> FALSE, chain |-> ch]
         ELSE [ok |-> TRUE, chain |-> <<block>> \o ch]

\* add_block: the returned flag and the chain afterwards
add_block(ch, block) ==
    IF ch # <<>> /\ block.previous_hash # ch[Len(ch)].hash
    THEN [ok |-> FALSE, chain |-> ch]
    ELSE IF ~is_valid_proof(block)
         THEN [ok |-> FALSE, chain |-> ch]
         ELSE [ok |-> TRUE, chain |-> Append(ch, block)]

\* proof_of_work whose loop recomputes the hash before it increments the nonce
RECURSIVE proof_of_work_StaleHash(_)
proof_of_work_StaleHash(block) ==
    IF startswith(block.hash, Zeros(difficulty)) \/ block.nonce >= MaxNonce
    THEN block
    ELSE proof_of_work_StaleHash(
            [block EXCEPT !.hash = compute_hash(block), !.nonce = @ + 1])

\* proof_of_work: the block after the search loop.  The loop has no bound in
\* the code; the model follows it for at most MaxNonce nonces.
RECURSIVE proof_of_work(_)
proof_of_work(block) ==
    IF startswith(block.hash, Zeros(difficulty)) \/ block.nonce >= MaxNonce
    THEN block
    ELSE LET b1 == [block EXCEPT !.nonce = @ + 1]
         IN  proof_of_work([b1 EXCEPT !.hash = compute_hash(b1)])

\* ---------------------------------------------------------------- actions
\* `call` is the caller's side of the engine: the operation it called last,
\* with its argument and result, until it goes on (Idle).
Idle == [op |-> "idle", ok |-> TRUE, block |-> NoBlock, tx |-> <<>>]

\* A thread that is not inside mine().
IdleWorker == [pc |-> "idle", last_block |-> 0, new_block |-> NoBlock,
               ok |-> FALSE, ret |-> "none"]

\* No call of proof_of_work is being followed.
NoSearch == [pc |-> "none", block |-> NoBlock, start |-> NoBlock, ret |-> <<>>]

\* Blockchain() whose genesis block is given the pending pool as transactions
Init_GenesisSharesPool ==
    \E ts \in GenesisTimestamps :
        /\ lists = <<<<>>, <<>>>>
        /\ unconfirmed_transactions = 1
        /\ chain = <<Block(0, 1, ts, GenesisPrev, 0, <<<<>>, <<>>>>)>>
        /\ call = Idle
        /\ submitted = <<>>
        /\ workers = [t \in Threads |-> IdleWorker]
        /\ search = NoSearch

\* Blockchain(): empty pool, empty chain, then create_genesis_block()
Init ==
    \E ts \in GenesisTimestamps :
        /\ lists = <<<<>>, <<>>>>
        /\ unconfirmed_transactions = 1
        /\ chain = <<Block(0, 2, ts, GenesisPrev, 0, <<<<>>, <<>>>>)>>
        /\ call = Idle
        /\ submitted = <<>>
        /\ workers = [t \in Threads |-> IdleWorker]
        /\ search = NoSearch

AddNewTransaction ==
    \E tx \in Payloads :
        /\ call = Idle
        /\ Len(lists[unconfirmed_transactions]) < MaxPending
        /\ lists' = [lists EXCEPT ![unconfirmed_transactions] = Append(@, tx)]
        /\ call' = [op |-> "add_new_transaction", ok |-> TRUE,
                    block |-> NoBlock, tx |-> tx]
        /\ submitted' = Append(submitted, tx)
        /\ UNCHANGED <<chain, unconfirmed_transactions, workers, search>>

\* The cycle of mine() after the emptiness check: the candidate is built on
\* the tip with the given index, sealed by proof_of_work (the step is taken
\* when the search returns within the model's nonce range) and offered to
\* add_block; pool_after is the list object the pool is bound to afterwards.
MineCycle(index, pool_after) ==
    \E ts \in Timestamps :
        LET last_block == chain[Len(chain)]
            new_block == Block(index, unconfirmed_transactions,
                               ts, last_block.hash, 0, lists)
        IN  /\ call = Idle
            /\ Len(chain) < MaxChain
            /\ \E sealed \in {proof_of_work(new_block)} :
                 /\ startswith(sealed.hash, Zeros(difficulty))
                 /\ chain' = add_block(chain, sealed).chain
                 /\ call' = [op |-> "mine", ok |-> TRUE,
                             block |-> View(sealed, lists), tx |-> <<>>]
            /\ lists' = Append(lists, <<>>)
            /\ unconfirmed_transactions' = pool_after
            /\ UNCHANGED <<submitted, workers, search>>

\* mine() without the emptiness check
Mine_NoEmptyCheck ==
    MineCycle(chain[Len(chain)].index + 1, Len(lists) + 1)

\* mine() that never replaces the pending pool
Mine_KeepPool ==
    IF lists[unconfirmed_transactions] = <<>>
    THEN /\ call = Idle
         /\ call' = [op |-> "mine", ok |-> FALSE, block |-> NoBlock, tx |-> <<>>]
         /\ UNCHANGED <<chain, lists, unconfirmed_transactions,
                        submitted, workers, search>>
    ELSE MineCycle(chain[Len(chain)].index + 1, unconfirmed_transactions)

\* mine() that copies the tip's index instead of incrementing it
Mine_IndexNotIncremented ==
    IF lists[unconfirmed_transactions] = <<>>
    THEN /\ call = Idle
         /\ call' = [op |-> "mine", ok |-> FALSE, block |-> NoBlock, tx |-> <<>>]
         /\ UNCHANGED <<chain, lists, unconfirmed_transactions,
                        submitted, workers, search>>
    ELSE MineCycle(chain[Len(chain)].index, Len(lists) + 1)

\* mine(): the whole cycle, run to completion
Mine ==
    IF lists[unconfirmed_transactions] = <<>>
    THEN /\ call = Idle
         /\ call' = [op |-> "mine", ok |-> FALSE, block |-> NoBlock, tx |-> <<>>]
         /\ UNCHANGED <<chain, lists, unconfirmed_transactions,
                        submitted, workers, search>>
    ELSE MineCycle(chain[Len(chain)].index + 1, Len(lists) + 1)

\* ------------------------------------------------- externally built blocks
\* How a caller of add_block prepared its block after constructing it.
ExternalKinds ==
    {"built", "sealed", "sealed_then_transactions", "sealed_then_nonce",
     "hash_overwritten"}

\* The previous_hash values external builders use: the hash of the tip, and
\* the hash of the block before it (the genesis sentinel when there is none).
ExternalPrevious ==
    {chain[Len(chain)].hash,
     IF Len(chain) > 1 THEN chain[Len(chain) - 1].hash ELSE GenesisPrev}

\* The index values external builders use: the block's position, or 7.
ExternalIndexes == {Len(chain), 7}

\* The block object, and the heap holding its transaction list.  The block
\* and its list are objects of their own, built for this call.
ExternalBlock(kind, index, txs, ts, prev) ==
    LET heap == Append(lists, txs)
        ref == Len(lists) + 1
        built == Block(index, ref, ts, prev, 0, heap)
        sealed == proof_of_work(built)
    IN  CASE kind = "built" -> [block |-> built, heap |-> heap]
          [] kind = "sealed" -> [block |-> sealed, heap |-> heap]
          [] kind = "sealed_then_transactions" ->
                [block |-> sealed,
                 heap |-> [heap EXCEPT ![ref] = Append(@, <<10>>)]]
          [] kind = "sealed_then_nonce" ->
                [block |-> [sealed EXCEPT !.nonce = @ + 1], heap |-> heap]
          [] kind = "hash_overwritten" ->
                [block |-> [built EXCEPT !.hash = Zeros(HashLen)], heap |-> heap]

\* add_block(block) called from outside the engine
AddBlock ==
    /\ call = Idle
    /\ Len(chain) < MaxChain
    /\ \E kind \in ExternalKinds, index \in ExternalIndexes,
          txs \in ExternalTransactions, ts \in ExternalTimestamps,
          prev \in ExternalPrevious :
        \E ext \in {ExternalBlock(kind, index, txs, ts, prev)} :
        \E added \in {add_block(chain, ext.block)} :
            /\ chain' = added.chain
            /\ lists' = IF added.ok THEN ext.heap ELSE lists
            /\ call' = [op |-> "add_block", ok |-> added.ok,
                        block |-> View(ext.block, ext.heap), tx |-> <<>>]
            /\ UNCHANGED <<unconfirmed_transactions, submitted, workers, search>>

\* The caller goes on after the call has returned.
Return ==
    /\ call # Idle
    /\ call' = Idle
    /\ UNCHANGED <<chain, lists, unconfirmed_transactions,
                   submitted, workers, search>>

Next == AddNewTransaction \/ Mine \/ AddBlock \/ Return

Spec == Init /\ [][Next]_vars

\* ------------------------------------ mine(), one statement at a time
\* Threads run mine() with their statements interleaved, while payloads are
\* submitted.  A thread's last_block names the block object it read as the
\* tip by its position in the chain; new_block is the thread's own object.
Others == <<call, search>>

\* add_new_transaction(tx) between the statements of running mine() calls
SubmitTransaction ==
    \E tx \in Payloads :
        /\ Len(lists[unconfirmed_transactions]) < MaxPending
        /\ Len(submitted) < MaxSubmitted
        /\ lists' = [lists EXCEPT ![unconfirmed_transactions] = Append(@, tx)]
        /\ submitted' = Append(submitted, tx)
        /\ UNCHANGED <<chain, unconfirmed_transactions, workers, Others>>

\* if not self.unconfirmed_transactions: return False
MineCheck(t) ==
    /\ workers[t].pc = "idle"
    /\ Len(chain) < MaxChain
    /\ workers' = [workers EXCEPT ![t] =
                      IF lists[unconfirmed_transactions] = <<>>
                      THEN [@ EXCEPT !.pc = "done", !.ret = "False"]
                      ELSE [@ EXCEPT !.pc = "m87"]]
    /\ UNCHANGED <<chain, lists, unconfirmed_transactions, submitted, Others>>

\* last_block = self.chain[-1]
MineTip(t) ==
    /\ workers[t].pc = "m87"
    /\ workers' = [workers EXCEPT ![t] =
                      [@ EXCEPT !.pc = "m88", !.last_block = Len(chain)]]
    /\ UNCHANGED <<chain, lists, unconfirmed_transactions, submitted, Others>>

\* new_block = Block(last_block.index + 1, self.unconfirmed_transactions,
\*                   time.time(), last_block.hash)
MineBuild(t) ==
    /\ workers[t].pc = "m88"
    /\ \E ts \in Timestamps :
         LET last_block == chain[workers[t].last_block]
         IN  workers' = [workers EXCEPT ![t] =
                [@ EXCEPT !.pc = "m95",
                          !.new_block = Block(last_block.index + 1,
                                              unconfirmed_transactions, ts,
                                              last_block.hash, 0, lists)]]
    /\ UNCHANGED <<chain, lists, unconfirmed_transactions, submitted, Others>>

\* new_block.hash = self.proof_of_work(new_block): the search writes only
\* the thread's own block, and the step is taken when it returns.
MineSearch(t) ==
    /\ workers[t].pc = "m95"
    /\ \E sealed \in {proof_of_work(workers[t].new_block)} :
         /\ startswith(sealed.hash, Zeros(difficulty))
         /\ workers' = [workers EXCEPT ![t] =
                           [@ EXCEPT !.pc = "a50", !.new_block = sealed]]
    /\ UNCHANGED <<chain, lists, unconfirmed_transactions, submitted, Others>>

\* add_block: if self.chain and block.previous_hash != self.chain[-1].hash:
\*                return False
AddLinkage(t) ==
    /\ workers[t].pc = "a50"
    /\ workers' = [workers EXCEPT ![t] =
          IF chain # <<>>
             /\ workers[t].new_block.previous_hash # chain[Len(chain)].hash
          THEN [@ EXCEPT !.pc = "m97", !.ok = FALSE]
          ELSE [@ EXCEPT !.pc = "a53"]]
    /\ UNCHANGED <<chain, lists, unconfirmed_transactions, submitted, Others>>

\* add_block: if not self.is_valid_proof(block): return False
AddProof(t) ==
    /\ workers[t].pc = "a53"
    /\ workers' = [workers EXCEPT ![t] =
          IF ~is_valid_proof(workers[t].new_block)
          THEN [@ EXCEPT !.pc = "m97", !.ok = FALSE]
          ELSE [@ EXCEPT !.pc = "a56"]]
    /\ UNCHANGED <<chain, lists, unconfirmed_transactions, submitted, Others>>

\* add_block: self.chain.append(block); return True
AddAppend(t) ==
    /\ workers[t].pc = "a56"
    /\ chain' = Append(chain, workers[t].new_block)
    /\ workers' = [workers EXCEPT ![t] = [@ EXCEPT !.pc = "m97", !.ok = TRUE]]
    /\ UNCHANGED <<lists, unconfirmed_transactions, submitted, Others>>

\* The last statements of mine() when the pool is replaced only after
\* add_block returned True
MineClear_OnlyOnSuccess(t) ==
    /\ workers[t].pc = "m97"
    /\ IF workers[t].ok
       THEN /\ lists' = Append(lists, <<>>)
            /\ unconfirmed_transactions' = Len(lists) + 1
       ELSE UNCHANGED <<lists, unconfirmed_transactions>>
    /\ workers' = [workers EXCEPT ![t] = [@ EXCEPT !.pc = "done", !.ret = "block"]]
    /\ UNCHANGED <<chain, submitted, Others>>

\* self.unconfirmed_transactions = []; return new_block
MineClear(t) ==
    /\ workers[t].pc = "m97"
    /\ lists' = Append(lists, <<>>)
    /\ unconfirmed_transactions' = Len(lists) + 1
    /\ workers' = [workers EXCEPT ![t] = [@ EXCEPT !.pc = "done", !.ret = "block"]]
    /\ UNCHANGED <<chain, submitted, Others>>

\* The thread goes on after mine() has returned.
MineDone(t) ==
    /\ workers[t].pc = "done"
    /\ workers' = [workers EXCEPT ![t] = IdleWorker]
    /\ UNCHANGED <<chain, lists, unconfirmed_transactions, submitted, Others>>

NextConc ==
    \/ SubmitTransaction
    \/ \E t \in Threads :
          \/ MineCheck(t) \/ MineTip(t) \/ MineBuild(t) \/ MineSearch(t)
          \/ AddLinkage(t) \/ AddProof(t) \/ AddAppend(t)
          \/ MineClear(t) \/ MineDone(t)

SpecConc == Init /\ [][NextConc]_vars

\* ------------------------------------------- proof_of_work, step by step
\* The blocks handed to proof_of_work: built by Block(...) on the genesis
\* block or on the sentinel, with a starting nonce.
SearchIndexes == {1, 7}
SearchTimestamps == {7, 12}
SearchTransactions == {<<<<10>>>>, <<<<11>>, <<10>>>>}
SearchStartNonces == {0, 5, 38}

\* A new engine, and proof_of_work(block) called on a block of its own.
InitPow ==
    \E ts \in GenesisTimestamps, index \in SearchIndexes,
       bts \in SearchTimestamps, txs \in SearchTransactions,
       nonce \in SearchStartNonces, linked \in BOOLEAN :
        LET heap == <<<<>>, <<>>, txs>>
            genesis == Block(0, 2, ts, GenesisPrev, 0, heap)
            block == Block(index, 3, bts,
                           IF linked THEN genesis.hash ELSE GenesisPrev,
                           nonce, heap)
        IN  /\ lists = heap
            /\ unconfirmed_transactions = 1
            /\ chain = <<genesis>>
            /\ call = Idle
            /\ submitted = <<>>
            /\ workers = [t \in Threads |-> IdleWorker]
            /\ search = [pc |-> "loop", block |-> block, start |-> block,
                         ret |-> <<>>]

\* One iteration that recomputes the hash before it increments the nonce
PowIterate_StaleHash ==
    /\ search.pc = "loop"
    /\ ~startswith(search.block.hash, Zeros(difficulty))
    /\ search.block.nonce < MaxNonce
    /\ search' = [search EXCEPT !.block =
                     [search.block EXCEPT !.hash = compute_hash(search.block),
                                          !.nonce = @ + 1]]
    /\ UNCHANGED <<chain, lists, unconfirmed_transactions, call, submitted,
                   workers>>

\* One iteration that forgets to increment the nonce
PowIterate_NoIncrement ==
    /\ search.pc = "loop"
    /\ ~startswith(search.block.hash, Zeros(difficulty))
    /\ search.block.nonce < MaxNonce
    /\ search' = [search EXCEPT !.block.hash = compute_hash(search.block)]
    /\ UNCHANGED <<chain, lists, unconfirmed_transactions, call, submitted,
                   workers>>

\* One iteration of the while loop: the test holds, nonce += 1, hash
\* recomputed.  The model follows the loop up to nonce MaxNonce.
PowIterate ==
    /\ search.pc = "loop"
    /\ ~startswith(search.block.hash, Zeros(difficulty))
    /\ search.block.nonce < MaxNonce
    /\ LET b1 == [search.block EXCEPT !.nonce = @ + 1]
       IN  search' = [search EXCEPT !.block = [b1 EXCEPT !.hash = compute_hash(b1)]]
    /\ UNCHANGED <<chain, lists, unconfirmed_transactions, call, submitted,
                   workers>>

\* The loop test fails: return block.hash
PowReturn ==
    /\ search.pc = "loop"
    /\ startswith(search.block.hash, Zeros(difficulty))
    /\ search' = [search EXCEPT !.pc = "returned", !.ret = search.block.hash]
    /\ UNCHANGED <<chain, lists, unconfirmed_transactions, call, submitted,
                   workers>>

NextPow == PowIterate \/ PowReturn

SpecPow == InitPow /\ [][NextPow]_vars

\* The loop runs on the calling thread, which keeps executing it.
SpecPowFair == SpecPow /\ WF_vars(NextPow)

\* ------------------------------------------------------------- properties
\* The chain as its readers see it.
ChainView == [i \in 1..Len(chain) |-> View(chain[i], lists)]

MeetsTarget(h) == startswith(h, Zeros(difficulty))

\* C1: every block after the first names the hash of the block before it.
ChainLinked ==
    \A i \in 2..Len(chain) : chain[i].previous_hash = chain[i - 1].hash

\* A chain of three blocks whose tip was admitted by an outside add_block.
ChainLinkedWitness ==
    Len(chain) = 3 /\ call.op = "add_block" /\ call.ok

\* C2: every block after the genesis block has a hash with `difficulty`
\* leading zeros; the genesis block need not.
ProofOfWorkInvariant ==
    \A i \in 2..Len(chain) : MeetsTarget(chain[i].hash)

\* A chain with accepted blocks on top of a genesis block that misses the target.
ProofOfWorkWitness ==
    Len(chain) >= 2 /\ ~MeetsTarget(chain[1].hash)

\* C3: every block of the chain has transactions_hash equal to the hash of
\* its joined transactions and hash equal to the hash of its five fields.
HashConsistent ==
    \A i \in 1..Len(chain) :
        /\ chain[i].transactions_hash = sha256(Join(lists[chain[i].transactions]))
        /\ chain[i].hash = compute_hash(chain[i])

\* C4: the chain is never empty, and every step keeps the blocks it had as a
\* prefix of the new chain, which is at most one block longer.
AppendOnly ==
    /\ [](chain # <<>>)
    /\ [][/\ Len(chain') \in {Len(chain), Len(chain) + 1}
          /\ \A i \in 1..Len(chain) :
                View(chain'[i], lists') = View(chain[i], lists)]_vars

\* A block was mined on top of a chain that already held an accepted block.
AppendOnlyWitness ==
    Len(chain) = 3 /\ call.op = "mine" /\ call.ok

\* What the claim states as the admission condition of add_block.
Admissible(b) ==
    /\ b.previous_hash = chain[Len(chain)].hash
    /\ MeetsTarget(b.hash)
    /\ b.hash = compute_hash(b)

PoolUnchanged ==
    /\ unconfirmed_transactions' = unconfirmed_transactions
    /\ lists'[unconfirmed_transactions] = lists[unconfirmed_transactions]

\* C5: add_block returns True and appends the block exactly when the block
\* is linked to the tip, meets the target and its hash equals the
\* recomputation; otherwise it returns False and leaves the chain as it
\* was; the pending pool is never changed.
AddBlockContract ==
    [][call'.op = "add_block" =>
          /\ call'.ok = Admissible(call'.block)
          /\ IF Admissible(call'.block)
             THEN ChainView' = Append(ChainView, call'.block)
             ELSE ChainView' = ChainView
          /\ PoolUnchanged]_vars

\* A block whose index is not its position was admitted.
AddBlockContractWitness ==
    call.op = "add_block" /\ call.ok /\ call.block.index = 7

\* C6: add_block rejects a block whose previous_hash is not the hash of the
\* tip, whatever its proof-of-work, and leaves the chain as it was.
StaleTipRejected ==
    [][(call'.op = "add_block"
          /\ call'.block.previous_hash # chain[Len(chain)].hash) =>
          (~call'.ok /\ ChainView' = ChainView)]_vars

\* A block with a valid proof-of-work on the superseded tip was rejected.
StaleTipWitness ==
    /\ call.op = "add_block" /\ ~call.ok
    /\ Len(chain) >= 2
    /\ call.block.previous_hash = chain[Len(chain) - 1].hash
    /\ call.block.previous_hash # chain[Len(chain)].hash
    /\ is_valid_proof(call.block)

\* C7: add_block rejects a block whose transactions no longer hash to its
\* transactions_hash, and leaves the chain as it was.
TamperRejected ==
    [][(call'.op = "add_block"
          /\ call'.block.transactions_hash # sha256(Join(call'.block.transactions))) =>
          (~call'.ok /\ ChainView' = ChainView)]_vars

\* C8: mine() on an empty pending pool returns the failure signal and no
\* block, and changes neither the chain nor the pool.
MineEmptyNoop ==
    [][(call'.op = "mine" /\ lists[unconfirmed_transactions] = <<>>) =>
          /\ ~call'.ok
          /\ call'.block = NoBlock
          /\ UNCHANGED <<chain, lists, unconfirmed_transactions>>]_vars

\* mine() failed on the empty pool of an engine that had accepted blocks.
MineEmptyWitness ==
    call.op = "mine" /\ ~call.ok /\ Len(chain) >= 2

\* C9: mine() on a non-empty pool P and tip T returns a block with index
\* T.index + 1, previous_hash T.hash, transactions P in order and a hash
\* meeting the target; that block is then the tip of a chain one longer and
\* the pending pool is empty.
MineSuccess ==
    [][(call'.op = "mine" /\ lists[unconfirmed_transactions] # <<>>) =>
          /\ call'.ok
          /\ call'.block.index = chain[Len(chain)].index + 1
          /\ call'.block.previous_hash = chain[Len(chain)].hash
          /\ call'.block.transactions = lists[unconfirmed_transactions]
          /\ MeetsTarget(call'.block.hash)
          /\ Len(chain') = Len(chain) + 1
          /\ ChainView'[Len(chain')] = call'.block
          /\ lists'[unconfirmed_transactions'] = <<>>]_vars

\* mine() returned a block holding "a" then "b" as the second mined block.
MineSuccessWitness ==
    /\ call.op = "mine" /\ call.ok
    /\ call.block.transactions = << <<10>>, <<11>> >>
    /\ call.block.index = 2

\* C10 as stated: every block's index is its position in the chain.
IndexIsPosition ==
    \A i \in 1..Len(chain) : chain[i].index = i - 1

\* An add_block that admitted a block whose index is not its position.
AdmitsOtherIndex ==
    call'.op = "add_block" /\ call'.ok /\ call'.block.index # Len(chain)

\* C10 as amended: the genesis block has index 0, a block appended by mine()
\* has the index of the tip it was built on plus one, and index = position
\* is kept by every step but an add_block that admits a block whose index
\* is not its position.
IndexFollowsTip ==
    /\ [](chain[1].index = 0)
    /\ [][/\ (call'.op = "mine" /\ Len(chain') > Len(chain)) =>
                chain'[Len(chain')].index = chain[Len(chain)].index + 1
          /\ (IndexIsPosition /\ ~AdmitsOtherIndex) => IndexIsPosition']_vars

\* mine() built on a tip whose index is not its position.
IndexFollowsTipWitness ==
    call.op = "mine" /\ call.ok /\ call.block.index = 8

\* The content of the pending pool.
Pending == lists[unconfirmed_transactions]

\* s is a prefix of t
IsPrefix(s, t) == Len(s) <= Len(t) /\ SubSeq(t, 1, Len(s)) = s

\* The genesis block as construction leaves it.
GenesisShape ==
    /\ chain[1].index = 0
    /\ lists[chain[1].transactions] = <<>>
    /\ chain[1].previous_hash = GenesisPrev
    /\ chain[1].nonce = 0
    /\ chain[1].transactions_hash = sha256(<<>>)
    /\ chain[1].hash = compute_hash(chain[1])

\* C13: a new engine has a chain of one block, the genesis block (index 0,
\* no transactions, previous_hash "0", nonce 0, hash computed from its
\* fields), and an empty pending pool; the genesis block keeps that shape.
GenesisInitial ==
    /\ (Len(chain) = 1 /\ GenesisShape /\ Pending = <<>>)
    /\ []GenesisShape

\* A new engine whose genesis block would not pass the admission check.
GenesisInitialWitness ==
    /\ Len(chain) = 1 /\ submitted = <<>> /\ call = Idle
    /\ ~is_valid_proof(chain[1])

\* C19: with operations run one at a time, mine() on a non-empty pool
\* appends the block it returns, and payloads leave the pending pool only
\* in a step that appends a block holding exactly them.
MineNeverRejects ==
    [][/\ (call'.op = "mine" /\ Pending # <<>>) =>
            ChainView' = Append(ChainView, call'.block)
       /\ ~IsPrefix(Pending, Pending') =>
            /\ Len(chain') = Len(chain) + 1
            /\ ChainView'[Len(chain')].transactions = Pending]_vars

\* Four payloads were submitted and the second mine() has returned.
MineNeverRejectsWitness ==
    call.op = "mine" /\ call.ok /\ Len(submitted) = 4 /\ Pending = <<>>

\* C20: no step of an operation run after a block was accepted changes a
\* field of that block, its transactions included.
AcceptedFrozen ==
    [][\A i \in 1..Len(chain) :
          /\ i <= Len(chain')
          /\ chain'[i] = chain[i]
          /\ lists'[chain'[i].transactions] = lists[chain[i].transactions]]_vars

\* A payload was submitted after mine() had put the first pool list into a
\* block.
AcceptedFrozenWitness ==
    /\ Len(chain) >= 2 /\ chain[2].transactions = 1
    /\ call.op = "add_new_transaction"

\* The hash block b has when its nonce is n.
HashAt(b, n) == IF n = b.nonce THEN b.hash ELSE compute_hash([b EXCEPT !.nonce = n])

\* Some nonce from b's own up to the model's range gives a hash on target.
HasWinner(b) == \E n \in b.nonce..MaxNonce : MeetsTarget(HashAt(b, n))

\* C14: when proof_of_work returns, block.hash meets the target and is the
\* hash of the block's fields, the returned value is block.hash, and nonce
\* is the least nonce from the starting one whose hash meets the target;
\* no step of the search changes index, transactions, timestamp,
\* previous_hash, transactions_hash, the chain or the pending pool.
PowPostcondition ==
    /\ [](search.pc = "returned" =>
            /\ MeetsTarget(search.block.hash)
            /\ search.block.hash = compute_hash(search.block)
            /\ search.ret = search.block.hash
            /\ search.block.nonce >= search.start.nonce
            /\ \A n \in search.start.nonce..(search.block.nonce - 1) :
                  ~MeetsTarget(HashAt(search.start, n)))
    /\ [][/\ search'.block.index = search.block.index
          /\ search'.block.transactions = search.block.transactions
          /\ lists'[search'.block.transactions] = lists[search.block.transactions]
          /\ search'.block.timestamp = search.block.timestamp
          /\ search'.block.previous_hash = search.block.previous_hash
          /\ search'.block.transactions_hash = search.block.transactions_hash
          /\ chain' = chain
          /\ unconfirmed_transactions' = unconfirmed_transactions
          /\ Pending' = Pending]_vars

\* A search that started at a nonce above 0 returned at a later nonce.
PowPostconditionWitness ==
    /\ search.pc = "returned"
    /\ search.start.nonce > 0
    /\ search.block.nonce > search.start.nonce

\* C15: when some nonce from the starting one on meets the target the
\* search returns; it returns in no other case.
PowTerminates ==
    /\ (search.pc = "loop" /\ HasWinner(search.block)) ~> (search.pc = "returned")
    /\ [](search.pc = "returned" => HasWinner(search.start))

\* A search returned after ten or more iterations.
PowTerminatesWitness ==
    /\ search.pc = "returned"
    /\ search.block.nonce >= search.start.nonce + 10

\* Thread t executes the last statements of mine() in this step.
Clears(t) == workers[t].pc = "m97" /\ workers'[t].pc = "done"

\* C16: a mine() that passed the emptiness check ends with the pending pool
\* empty, whether add_block accepted its candidate or not.
MineAlwaysClears ==
    [][\A t \in Threads : Clears(t) => Pending' = <<>>]_vars

\* A mine() whose candidate add_block rejected has returned, the pool empty.
MineAlwaysClearsWitness ==
    \E t \in Threads :
        /\ workers[t].pc = "done" /\ workers[t].ret = "block"
        /\ ~workers[t].ok
        /\ Pending = <<>>

\* C11: the pending pool changes only by a payload appended to it, or by
\* being emptied by a mine() whose candidate add_block accepted; a mine()
\* whose candidate was rejected leaves the pool as it was.
PoolClearedOnlyOnSuccess ==
    [][\/ IsPrefix(Pending, Pending')
       \/ /\ Pending' = <<>>
          /\ \E t \in Threads : Clears(t) /\ workers[t].ok]_vars

\* C12: mine() returns a block only when add_block accepted that block.
ReturnsBlockOnlyOnSuccess ==
    [][\A t \in Threads :
          (Clears(t) /\ workers'[t].ret = "block") => workers[t].ok]_vars

\* C17: a candidate is appended only while the block its thread read as the
\* tip is still the last block of the chain, so that no two candidates
\* built on one tip are both appended.
OneBlockPerTip ==
    [][\A t \in Threads :
          (workers[t].pc = "a56" /\ Len(chain') = Len(chain) + 1) =>
              workers[t].last_block = Len(chain)]_vars

\* No thread is inside mine().
Quiescent == \A t \in Threads : workers[t].pc \in {"idle", "done"}

\* How many times payload p occurs in the sequence s.
Count(p, s) == Cardinality({i \in 1..Len(s) : s[i] = p})

\* How many times payload p occurs in the blocks 2..n of the chain.
RECURSIVE CountInChain(_, _)
CountInChain(p, n) ==
    IF n < 2 THEN 0
    ELSE Count(p, lists[chain[n].transactions]) + CountInChain(p, n - 1)

\* C18: once every mine() has returned, each submitted payload is either
\* pending or in exactly one accepted block, and each accepted block's
\* transactions_hash is the hash of its transactions.
NoLostNoDouble ==
    Quiescent =>
        /\ \A p \in Payloads :
              Count(p, submitted) = Count(p, Pending) + CountInChain(p, Len(chain))
        /\ \A i \in 2..Len(chain) :
              chain[i].transactions_hash = sha256(Join(lists[chain[i].transactions]))
====
